---- MODULE Spec2Model ----
(***************************************************************************)
(* A model of app.py: the Flask proxy in front of the GhanaNLP translation *)
(* and text-to-speech endpoints.  One request is handled at a time; a      *)
(* handler blocks at each outbound call, and the provider's answer (a      *)
(* response, or an exception of the requests library) is the input of the  *)
(* next step.                                                              *)
(***************************************************************************)
EXTENDS Integers, Sequences, FiniteSets, TLC

(***************************************************************************)
(* Bounds of the model.                                                    *)
(***************************************************************************)
\* Longest binary payload enumerated byte by byte (longer ones are fixed samples).
MaxBytes == 3

(***************************************************************************)
(* Program constants.                                                      *)
(***************************************************************************)
TranslateTimeout == 15
TtsTimeout == 30
FetchTimeout == 30
AudioSizeThreshold == 1000
ErrorTextLimit == 200

(***************************************************************************)
(* JSON values as Python sees them.                                        *)
(***************************************************************************)
JStr(s) == [t |-> "str", s |-> s]
JNum(n) == [t |-> "num", n |-> n]
JBool(b) == [t |-> "bool", b |-> b]
JNull == [t |-> "null"]
JList(items) == [t |-> "list", items |-> items]
JObj(f) == [t |-> "obj", f |-> f]
\* What response.json() / request.json cannot parse.
NotJson == [t |-> "invalid"]

\* A one-key and a two-key record.
Obj1(k, v) == JObj([x \in {k} |-> v])
Obj2(k1, v1, k2, v2) == JObj([x \in {k1, k2} |-> IF x = k1 THEN v1 ELSE v2])
EmptyObj == JObj([x \in {} |-> JNull])

IsDict(v) == v.t = "obj"
IsStr(v) == v.t = "str"

\* Python truthiness (`if not text`, `if audio_data`, `response.text or ...`).
Truthy(v) ==
    CASE v.t = "str" -> v.s # ""
      [] v.t = "num" -> v.n # 0
      [] v.t = "bool" -> v.b
      [] v.t = "null" -> FALSE
      [] v.t = "list" -> v.items # <<>>
      [] v.t = "obj" -> DOMAIN v.f # {}
      [] OTHER -> FALSE

\* dict.get(key, default): decided by the presence of the key, not by its value.
DictGet(d, key, default) == IF key \in DOMAIN d.f THEN d.f[key] ELSE default

\* Usable as a dict key (`x in speaker_map`, `lang_map.get(x, x)`).
Hashable(v) == v.t \notin {"list", "obj"}

PyTypeName(v) ==
    CASE v.t = "str" -> "str"
      [] v.t = "num" -> "int"
      [] v.t = "bool" -> "bool"
      [] v.t = "null" -> "NoneType"
      [] v.t = "list" -> "list"
      [] v.t = "obj" -> "dict"
      [] OTHER -> "object"

RECURSIVE JoinStrs(_, _)
JoinStrs(items, sep) ==
    IF items = <<>> THEN ""
    ELSE IF Len(items) = 1 THEN items[1]
    ELSE items[1] \o sep \o JoinStrs(Tail(items), sep)

\* repr() of a scalar, as it appears inside the str() of a list.
PyRepr(v) ==
    CASE v.t = "str" -> "'" \o v.s \o "'"
      [] v.t = "num" -> ToString(v.n)
      [] v.t = "bool" -> (IF v.b THEN "True" ELSE "False")
      [] v.t = "null" -> "None"
      [] OTHER -> "?"

\* str(x) and the {x} of an f-string.
PyStr(v) ==
    CASE v.t = "str" -> v.s
      [] v.t = "list" ->
           "[" \o JoinStrs([i \in 1..Len(v.items) |-> PyRepr(v.items[i])], ", ") \o "]"
      [] OTHER -> PyRepr(v)

\* The message of the AttributeError raised by x.get(...) on a non-dict.
AttributeErrorMsg(v) == "'" \o PyTypeName(v) \o "' object has no attribute 'get'"
\* The message of the TypeError raised by using a list as a dict key.
UnhashableMsg(v) == "unhashable type: '" \o PyTypeName(v) \o "'"

(***************************************************************************)
(* Text, bytes and base64.                                                 *)
(***************************************************************************)
CharAt(s, i) == SubSeq(s, i, i)

\* The printable ASCII characters in order: codes 32 to 95, and 97 to 126 (the
\* backquote, code 96, cannot be written in a string here and occurs in no text).
PrintableLow ==
    " !\"#$%&'()*+,-./0123456789:;<=>?@ABCDEFGHIJKLMNOPQRSTUVWXYZ[\\]^_"
PrintableHigh == "abcdefghijklmnopqrstuvwxyz{|}~"

AsciiCode(c) ==
    IF \E i \in 1..Len(PrintableLow) : CharAt(PrintableLow, i) = c
    THEN 31 + (CHOOSE i \in 1..Len(PrintableLow) : CharAt(PrintableLow, i) = c)
    ELSE 96 + (CHOOSE i \in 1..Len(PrintableHigh) : CharAt(PrintableHigh, i) = c)

AsciiChar(n) ==
    IF n >= 32 /\ n <= 95 THEN CharAt(PrintableLow, n - 31)
    ELSE IF n >= 97 /\ n <= 126 THEN CharAt(PrintableHigh, n - 96)
    ELSE "?"

\* str.encode(): the bytes of an ASCII text.
EncodeText(s) == [i \in 1..Len(s) |-> AsciiCode(CharAt(s, i))]

RECURSIVE ConcatRange(_, _, _)
\* f[lo] \o ... \o f[hi], split in halves.
ConcatRange(f, lo, hi) ==
    IF lo > hi THEN ""
    ELSE IF lo = hi THEN f[lo]
    ELSE LET mid == (lo + hi) \div 2
         IN  ConcatRange(f, lo, mid) \o ConcatRange(f, mid + 1, hi)

\* bytes.decode(errors='replace') as response.text does it: "?" stands for U+FFFD.
DecodeBytes(b) ==
    ConcatRange([i \in 1..Len(b) |->
                    AsciiChar(b[i])],
                1, Len(b))

Upper == "ABCDEFGHIJKLMNOPQRSTUVWXYZ"
Lower == "abcdefghijklmnopqrstuvwxyz"

LowerChar(c) ==
    IF \E i \in 1..Len(Upper) : CharAt(Upper, i) = c
    THEN CharAt(Lower, CHOOSE i \in 1..Len(Upper) : CharAt(Upper, i) = c)
    ELSE c

\* str.lower()
PyLower(s) == ConcatRange([i \in 1..Len(s) |-> LowerChar(CharAt(s, i))], 1, Len(s))

\* `sub in s`
Contains(sub, s) ==
    \E i \in 1..(Len(s) - Len(sub) + 1) : SubSeq(s, i, i + Len(sub) - 1) = sub

\* s[:n]
Prefix(s, n) == SubSeq(s, 1, IF Len(s) < n THEN Len(s) ELSE n)

B64Alphabet == "ABCDEFGHIJKLMNOPQRSTUVWXYZabcdefghijklmnopqrstuvwxyz0123456789+/"
B64Char(n) == CharAt(B64Alphabet, n + 1)

\* The four characters of the g-th group of three bytes (RFC 4648, padded).
B64Group(b, g) ==
    LET n == Len(b)
        i == 3 * (g - 1) + 1
        b1 == b[i]
        b2 == IF i + 1 <= n THEN b[i + 1] ELSE 0
        b3 == IF i + 2 <= n THEN b[i + 2] ELSE 0
    IN  B64Char(b1 \div 4)
        \o B64Char((b1 % 4) * 16 + b2 \div 16)
        \o (IF i + 1 <= n THEN B64Char((b2 % 16) * 4 + b3 \div 64) ELSE "=")
        \o (IF i + 2 <= n THEN B64Char(b3 % 64) ELSE "=")

\* base64.b64encode(content).decode('utf-8')
b64encode(b) ==
    LET groups == (Len(b) + 2) \div 3
    IN  ConcatRange([g \in 1..groups |-> B64Group(b, g)], 1, groups)

(***************************************************************************)
(* What a handler step ends with: a client response, an exception that     *)
(* propagates to the handler's except clauses, or an outbound call.        *)
(***************************************************************************)
Return(status, body) == [k |-> "return", status |-> status, body |-> body]
Raise(exc, msg) == [k |-> "raise", exc |-> exc, msg |-> msg]
Call(c) == [k |-> "call", call |-> c]

\* The exception classes of the requests library the handlers tell apart.
\* ConnectTimeout derives from both ConnectionError and Timeout.
IsTimeout(exc) == exc \in {"ReadTimeout", "ConnectTimeout"}
IsConnectionError(exc) == exc \in {"ConnectionError", "ConnectTimeout"}
\* MissingSchema, InvalidSchema, InvalidURL and the JSON decode error derive from ValueError.
IsValueError(exc) == exc \in {"MissingSchema", "InvalidSchema", "InvalidURL", "JSONDecodeError"}

\* str(e) for the exceptions whose text the library or the framework decides.
ExcMsg(exc) ==
    CASE exc = "TooManyRedirects" -> "Exceeded 30 redirects."
      [] exc = "JSONDecodeError" -> "Expecting value: line 1 column 1 (char 0)"
      [] exc = "BadRequest" ->
           "400 Bad Request: The browser (or proxy) sent a request that this server could not understand."
      [] exc = "ReadTimeout" -> "Read timed out."
      [] exc = "ConnectTimeout" -> "Connection to translation-api.ghananlp.org timed out."
      [] exc = "ConnectionError" -> "Max retries exceeded with url"
      [] OTHER -> exc

\* response.text
ResponseText(r) == DecodeBytes(r.content)

(***************************************************************************)
(* POST /api/translate                                                     *)
(***************************************************************************)
lang_map ==
    [en |-> "en", tw |-> "tw", twi_akuapem |-> "ak", ewe |-> "ee",
     ga |-> "gaa", dagbani |-> "dag", fante |-> "fat", kikuyu |-> "ki"]

\* A lookup whose default is the source language instead of the code itself.
lang_map_get_default_en(code) ==
    IF IsStr(code) /\ code.s \in DOMAIN lang_map THEN JStr(lang_map[code.s]) ELSE JStr("en")

\* lang_map.get(code, code)
lang_map_get(code) ==
    IF IsStr(code) /\ code.s \in DOMAIN lang_map THEN JStr(lang_map[code.s]) ELSE code

\* `if text is None` in place of `if not text`
text_missing_none_only(text) == text = JNull

\* `if not text`
text_missing(text) == ~Truthy(text)

\* The credential check left out.
api_key_missing_never(key) == FALSE

\* `if not GHANANLP_API_KEY`
api_key_missing(key) == key = ""

TRANSLATE_API_URL == "https://translation-api.ghananlp.org/v1/translate"

\* The handler from its first line to requests.post (the call is not yet answered).
translate_text_begin(data, key) ==
    IF data = NotJson THEN Raise("BadRequest", ExcMsg("BadRequest"))
    ELSE IF ~IsDict(data) THEN Raise("AttributeError", AttributeErrorMsg(data))
    ELSE
      LET text == DictGet(data, "text", JStr(""))
          source_lang == DictGet(data, "source", JStr("en"))
          target_lang == DictGet(data, "target", JStr("tw"))
      IN  IF text_missing(text) THEN Return(400, [error |-> JStr("Missing text")])
          ELSE IF api_key_missing(key) THEN
            Return(401,
                   [error |-> JStr("API key not configured"),
                    details |-> JStr("Please add your GhanaNLP API key to .env file. Get one at https://translation.ghananlp.org")])
          ELSE IF ~Hashable(source_lang) THEN Raise("TypeError", UnhashableMsg(source_lang))
          ELSE IF ~Hashable(target_lang) THEN Raise("TypeError", UnhashableMsg(target_lang))
          ELSE
            LET source == lang_map_get(source_lang)
                target == lang_map_get(target_lang)
            IN  Call([method |-> "POST",
                      url |-> TRANSLATE_API_URL,
                      json |-> Obj2("in", text, "lang", JStr(PyStr(source) \o "-" \o PyStr(target))),
                      key |-> key,
                      timeout |-> TranslateTimeout])

\* The legacy key tried before the current one.
translated_text_of_legacy_first(result) ==
    IF IsDict(result)
    THEN DictGet(result, "translation",
                 DictGet(result, "out", DictGet(result, "translatedText", JStr(""))))
    ELSE IF IsStr(result) THEN result
    ELSE JStr(PyStr(result))

\* The translation found in a 200 answer.
translated_text_of(result) ==
    IF IsDict(result)
    THEN DictGet(result, "out",
                 DictGet(result, "translation", DictGet(result, "translatedText", JStr(""))))
    ELSE IF IsStr(result) THEN result
    ELSE JStr(PyStr(result))

\* `message` looked up before `error`.
error_msg_of_message_first(response, generic) ==
    IF response.json # NotJson /\ IsDict(response.json)
    THEN DictGet(response.json, "message", DictGet(response.json, "error", JStr(generic)))
    ELSE IF ResponseText(response) # "" THEN JStr(ResponseText(response)) ELSE JStr(generic)

\* The error message taken from a provider answer; `generic` is the status-coded default.
error_msg_of(response, generic) ==
    IF response.json # NotJson /\ IsDict(response.json)
    THEN DictGet(response.json, "error", DictGet(response.json, "message", JStr(generic)))
    ELSE IF ResponseText(response) # "" THEN JStr(ResponseText(response)) ELSE JStr(generic)

\* The handler after requests.post returned `response`.
translate_text_response(data, response) ==
    LET text == DictGet(data, "text", JStr(""))
        source_lang == DictGet(data, "source", JStr("en"))
        target_lang == DictGet(data, "target", JStr("tw"))
    IN  IF response.status_code = 200 THEN
          IF response.json = NotJson THEN Raise("JSONDecodeError", ExcMsg("JSONDecodeError"))
          ELSE
            LET translated_text == translated_text_of(response.json)
            IN  IF ~Truthy(translated_text) THEN
                  Return(500,
                         [error |-> JStr("Empty translation received"),
                          details |-> JStr("The API returned an empty translation. Please try again.")])
                ELSE
                  Return(200,
                         [success |-> JBool(TRUE),
                          translated_text |-> translated_text,
                          original_text |-> text,
                          source_language |-> source_lang,
                          target_language |-> target_lang,
                          provider |-> JStr("GhanaNLP")])
        ELSE
          Return(response.status_code,
                 [error |-> error_msg_of(response,
                                         "API returned status " \o ToString(response.status_code)),
                  details |-> JStr("Please check your API key and try again.")])

\* The except clauses of translate_text, tried in order.
translate_text_except(exc, msg) ==
    IF IsTimeout(exc) THEN
      Return(504,
             [error |-> JStr("Translation request timed out"),
              details |-> JStr("The server took too long to respond. Please try again.")])
    ELSE IF IsConnectionError(exc) THEN
      Return(503,
             [error |-> JStr("Connection error"),
              details |-> JStr("Unable to connect to GhanaNLP API. Please check your internet connection.")])
    ELSE
      Return(500,
             [error |-> JStr(msg),
              details |-> JStr("An unexpected error occurred. Please try again.")])

(***************************************************************************)
(* POST /api/text-to-speech                                                *)
(***************************************************************************)
TTS_API_URL == "https://translation-api.ghananlp.org/tts/v1/synthesize"

speaker_map ==
    [tw |-> <<"twi_speaker_4", "twi_speaker_5", "twi_speaker_6",
              "twi_speaker_7", "twi_speaker_8", "twi_speaker_9">>,
     ewe |-> <<"ewe_speaker_3", "ewe_speaker_4">>,
     kikuyu |-> <<"kikuyu_speaker_1", "kikuyu_speaker_5">>]

tts_lang_map == [tw |-> "tw", ewe |-> "ee", kikuyu |-> "ki"]

\* `language in speaker_map`, for a hashable language
in_speaker_map(language) == IsStr(language) /\ language.s \in DOMAIN speaker_map

\* tts_lang_map.get(language, language)
tts_lang_map_get(language) ==
    IF IsStr(language) /\ language.s \in DOMAIN tts_lang_map
    THEN JStr(tts_lang_map[language.s])
    ELSE language

\* speaker_map[language][0]
default_speaker(language) == JStr(speaker_map[language.s][1])

\* The browser fallback offered for every language without TTS.
tts_not_available_any_browser(language) ==
    Return(400,
           [error |-> JStr("TTS not available"),
            details |-> JStr("Text-to-speech is not available for " \o PyStr(language)
                             \o ". Supported languages: Twi, Ewe, Kikuyu."),
            use_browser_tts |-> JBool(TRUE)])

\* The answer to a language that has no speakers.
tts_not_available(language) ==
    Return(400,
           [error |-> JStr("TTS not available"),
            details |-> JStr("Text-to-speech is not available for " \o PyStr(language)
                             \o ". Supported languages: Twi, Ewe, Kikuyu."),
            use_browser_tts |-> JBool(language = JStr("en"))])

\* The handler from its first line to requests.post (the call is not yet answered).
text_to_speech_begin(data, key) ==
    IF data = NotJson THEN Raise("BadRequest", ExcMsg("BadRequest"))
    ELSE IF ~IsDict(data) THEN Raise("AttributeError", AttributeErrorMsg(data))
    ELSE
      LET text == DictGet(data, "text", JStr(""))
          language == DictGet(data, "language", JStr("tw"))
      IN  IF text_missing(text) THEN Return(400, [error |-> JStr("Missing text")])
          ELSE IF api_key_missing(key) THEN
            Return(401,
                   [error |-> JStr("API key not configured"),
                    details |-> JStr("Please add your GhanaNLP API key to .env file")])
          ELSE IF ~Hashable(language) THEN Raise("TypeError", UnhashableMsg(language))
          ELSE IF ~in_speaker_map(language) THEN tts_not_available(language)
          ELSE
            Call([method |-> "POST",
                  url |-> TTS_API_URL,
                  json |-> JObj([x \in {"text", "language", "speaker_id"} |->
                                   CASE x = "text" -> text
                                     [] x = "language" -> tts_lang_map_get(language)
                                     [] OTHER -> default_speaker(language)]),
                  key |-> key,
                  timeout |-> TtsTimeout])

\* The success answer of text_to_speech.
audio_success(data, audio_data) ==
    LET language == DictGet(data, "language", JStr("tw"))
    IN  Return(200,
               [success |-> JBool(TRUE),
                audio_data |-> audio_data,
                audio_format |-> JStr("audio/wav"),
                language |-> language,
                speaker_id |-> default_speaker(language),
                text |-> DictGet(data, "text", JStr(""))])

no_audio_data ==
    Return(500,
           [error |-> JStr("No audio data in response"),
            details |-> JStr("The TTS API did not return audio data.")])

\* The test that takes a 200 answer for binary audio.
is_audio_response(response) ==
    LET content_type == PyLower(response.content_type)
    IN  \/ Contains("audio", content_type)
        \/ Contains("octet-stream", content_type)
        \/ Len(response.content) > AudioSizeThreshold

StartsWith(prefix, s) == Len(s) >= Len(prefix) /\ SubSeq(s, 1, Len(prefix)) = prefix

\* requests.get(url) gets as far as the network: any other URL makes it raise
\* MissingSchema or InvalidSchema, both a ValueError.
url_reaches_network(url) ==
    StartsWith("http://", PyStr(url)) \/ StartsWith("https://", PyStr(url))

\* The error message of the last branch: as error_msg_of, the raw body cut short.
tts_error_msg_of(response, generic) ==
    IF response.json # NotJson /\ IsDict(response.json)
    THEN DictGet(response.json, "error", DictGet(response.json, "message", JStr(generic)))
    ELSE IF ResponseText(response) # ""
         THEN JStr(Prefix(ResponseText(response), ErrorTextLimit))
         ELSE JStr(generic)

\* The handler after requests.post returned `response`, up to requests.get.
text_to_speech_response(data, response) ==
    IF response.status_code = 200 THEN
      IF is_audio_response(response)
      THEN audio_success(data, JStr(b64encode(response.content)))
      ELSE IF response.json = NotJson THEN no_audio_data
      ELSE IF ~IsDict(response.json)
      THEN Raise("AttributeError", AttributeErrorMsg(response.json))
      ELSE
        LET result == response.json
            audio_data == DictGet(result, "audio",
                                  DictGet(result, "audio_content",
                                          DictGet(result, "audio_base64", JStr(""))))
            audio_url == DictGet(result, "audio_url", DictGet(result, "url", JStr("")))
        IN  IF Truthy(audio_data) THEN audio_success(data, audio_data)
            ELSE IF Truthy(audio_url) THEN
              IF url_reaches_network(audio_url)
              THEN Call([method |-> "GET",
                         url |-> PyStr(audio_url),
                         json |-> JNull,
                         key |-> "",
                         timeout |-> FetchTimeout])
              ELSE no_audio_data
            ELSE no_audio_data
    ELSE IF response.status_code = 401 THEN
      Return(401,
             [error |-> JStr("Authentication failed"),
              details |-> JStr("Your GhanaNLP API key is invalid or expired.")])
    ELSE IF response.status_code = 403 THEN
      Return(403,
             [error |-> JStr("Access forbidden"),
              details |-> JStr("TTS access is not enabled for your API key.")])
    ELSE
      Return(response.status_code,
             [error |-> tts_error_msg_of(response,
                                         "TTS API returned status "
                                            \o ToString(response.status_code)),
              details |-> JStr("Status code: " \o ToString(response.status_code))])

\* The handler after requests.get returned `audio_response`.
text_to_speech_fetched(data, audio_response) ==
    IF audio_response.status_code = 200
    THEN audio_success(data, JStr(b64encode(audio_response.content)))
    ELSE no_audio_data

\* `except Exception: pass` around the JSON branch.
inner_except_catches_all(exc) == TRUE

\* `except ValueError: pass` around the JSON branch, requests.get included.
inner_except_catches(exc) == IsValueError(exc)

\* The except clauses of text_to_speech, tried in order.
text_to_speech_except(exc, msg) ==
    IF IsTimeout(exc) THEN
      Return(504,
             [error |-> JStr("TTS request timed out"),
              details |-> JStr("The speech generation took too long. Try with shorter text.")])
    ELSE IF IsConnectionError(exc) THEN
      Return(503,
             [error |-> JStr("Connection error"),
              details |-> JStr("Unable to connect to GhanaNLP TTS API.")])
    ELSE
      Return(500,
             [error |-> JStr(msg),
              details |-> JStr("An unexpected error occurred during speech generation")])

(***************************************************************************)
(* The environment: client requests and the provider's answers.            *)
(***************************************************************************)
\* json.dumps of a scalar, of a scalar or list, and of any value of the model.
DumpScalar(v) ==
    CASE v.t = "str" -> "\"" \o v.s \o "\""
      [] v.t = "num" -> ToString(v.n)
      [] v.t = "bool" -> (IF v.b THEN "true" ELSE "false")
      [] OTHER -> "null"

DumpFlat(v) ==
    IF v.t = "list"
    THEN "[" \o JoinStrs([i \in 1..Len(v.items) |-> DumpScalar(v.items[i])], ", ") \o "]"
    ELSE DumpScalar(v)

KeyOrder ==
    <<"error", "message", "detail", "out", "translation", "translatedText",
      "audio", "audio_content", "audio_base64", "audio_url", "url">>

Dump(v) ==
    IF v.t = "obj"
    THEN LET keys == SelectSeq(KeyOrder, LAMBDA k : k \in DOMAIN v.f)
         IN  "{" \o JoinStrs([i \in 1..Len(keys) |->
                                 "\"" \o keys[i] \o "\": " \o DumpFlat(v.f[keys[i]])], ", ")
                 \o "}"
    ELSE DumpFlat(v)

Response(status, ctype, content, json) ==
    [k |-> "response", status_code |-> status, content_type |-> ctype,
     content |-> content, json |-> json]
Raised(exc) == [k |-> "raise", exc |-> exc]

\* A provider answer whose body is the JSON document of v, and one whose body is plain text.
JsonAnswer(status, ctype, v) == Response(status, ctype, EncodeText(Dump(v)), v)
TextAnswer(status, ctype, text) == Response(status, ctype, EncodeText(text), NotJson)

\* A field left out of a request body.
Absent == [t |-> "absent"]
RequestBody(fields) ==
    JObj([k \in {x \in DOMAIN fields : fields[x] # Absent} |-> fields[k]])

\* Bodies that are no JSON record: unparsable, null, a list, a string.
NonRecordRequests == {NotJson, JNull, JList(<<>>), JStr("Good morning")}

TextInputs == {Absent, JStr(""), JStr("Good morning"), JNull, JNum(7)}

LangCodes ==
    {"en", "tw", "twi_akuapem", "ewe", "ga", "dagbani", "fante", "kikuyu", "fr", "ee"}
LangInputs == {Absent, JNull, JList(<<JStr("en")>>)} \cup {JStr(c) : c \in LangCodes}

\* Every source with a few targets, and every target with a few sources.
LangPairs ==
    (LangInputs \X {Absent, JStr("tw")}) \cup ({Absent, JStr("en")} \X LangInputs)
        \cup {<<JStr("twi_akuapem"), JStr("ga")>>, <<JStr("fr"), JStr("de")>>}

TranslateRequests ==
    NonRecordRequests
        \cup {RequestBody([text |-> t, source |-> p[1], target |-> p[2]]) :
                t \in TextInputs, p \in LangPairs}

SpeechRequests ==
    NonRecordRequests
        \cup {RequestBody([text |-> t, language |-> l]) : t \in TextInputs, l \in LangInputs}

\* What requests.post / requests.get may raise.
CallExceptions == {"ReadTimeout", "ConnectTimeout", "ConnectionError", "TooManyRedirects"}
FetchExceptions == CallExceptions \cup {"InvalidURL"}

ProviderStatuses == {200, 201, 204, 400, 401, 403, 404, 429, 500, 503}

LongText == ConcatRange([i \in 1..(ErrorTextLimit + 5) |-> "x"], 1, ErrorTextLimit + 5)

ErrorValues ==
    {Obj1("error", JStr("Invalid subscription key")),
     Obj1("message", JStr("Rate limit exceeded")),
     Obj2("error", JStr("Quota exhausted"), "message", JStr("Try later")),
     Obj1("error", JStr("")),
     Obj1("detail", JStr("Not found")),
     EmptyObj, JList(<<>>), JStr("upstream failure"), JNull}
PlainTexts == {"", "Bad Gateway", LongText}

TranslationValues ==
    {Obj1("out", JStr("Akwaaba")),
     Obj1("translation", JStr("Akwaaba")),
     Obj1("translatedText", JStr("Me da wo ase")),
     Obj2("out", JStr("Akwaaba"), "translation", JStr("Woezor")),
     Obj2("translation", JStr("Woezor"), "translatedText", JStr("Me da wo ase")),
     Obj2("out", JStr(""), "translation", JStr("Akwaaba")),
     Obj1("out", JStr("")), Obj1("out", JNull), Obj1("out", JNum(0)), Obj1("out", JNum(5)),
     JStr("Akwaaba"), JStr(""), JList(<<JStr("Akwaaba")>>), JNum(0), JBool(FALSE)}

TranslateAnswers ==
    {JsonAnswer(st, "application/json", v) :
        st \in ProviderStatuses, v \in ErrorValues \cup TranslationValues}
        \cup {TextAnswer(st, "text/html", x) : st \in ProviderStatuses, x \in PlainTexts}
        \cup {Raised(e) : e \in CallExceptions}

ContentTypes ==
    {"audio/wav", "application/octet-stream", "Audio/MPEG", "application/json",
     "text/html; charset=utf-8", ""}

ByteSample == {0, 77, 255}
BinaryContents == UNION {[1..n -> ByteSample] : n \in 0..MaxBytes}

\* The document of v followed by spaces up to n bytes: still the JSON document of v.
Padded(v, n) ==
    LET doc == EncodeText(Dump(v))
    IN  [i \in 1..n |-> IF i <= Len(doc) THEN doc[i] ELSE 32]

SpeechValues ==
    {Obj1("audio", JStr("UklGRg==")),
     Obj1("audio_content", JStr("UklGRg==")),
     Obj1("audio_base64", JStr("UklGRg==")),
     Obj2("audio_content", JStr("QUJD"), "audio_base64", JStr("UklGRg==")),
     Obj2("audio", JStr(""), "audio_content", JStr("UklGRg==")),
     Obj2("audio", JStr("UklGRg=="), "audio_url", JStr("https://cdn.example/a.wav")),
     Obj1("audio", JNull),
     Obj1("audio_url", JStr("https://cdn.example/a.wav")),
     Obj1("url", JStr("http://cdn.example/b.wav")),
     Obj2("audio_url", JStr("https://cdn.example/a.wav"), "url", JStr("http://cdn.example/b.wav")),
     Obj2("audio_url", JStr(""), "url", JStr("http://cdn.example/b.wav")),
     Obj1("audio_url", JStr("cdn.example/a.wav")),
     Obj1("message", JStr("queued")),
     EmptyObj, JList(<<>>), JStr("UklGRg=="), JNull, JNum(5)}

SpeechOkAnswers ==
    {Response(200, ct, b, NotJson) :
        ct \in ContentTypes,
        b \in BinaryContents
                \cup {[i \in 1..AudioSizeThreshold |-> 65],
                      [i \in 1..(AudioSizeThreshold + 1) |-> 65]}}
        \cup {JsonAnswer(200, ct, v) : ct \in ContentTypes, v \in SpeechValues}
        \cup {Response(200, ct, Padded(Obj1("audio", JStr("UklGRg==")), n),
                       Obj1("audio", JStr("UklGRg=="))) :
                ct \in ContentTypes, n \in {AudioSizeThreshold, AudioSizeThreshold + 1}}
        \cup {TextAnswer(200, ct, x) : ct \in ContentTypes, x \in PlainTexts}

SpeechAnswers ==
    SpeechOkAnswers
        \cup {JsonAnswer(st, "application/json", v) :
                st \in ProviderStatuses \ {200}, v \in ErrorValues}
        \cup {TextAnswer(st, "text/html", x) : st \in ProviderStatuses \ {200}, x \in PlainTexts}
        \cup {Raised(e) : e \in CallExceptions}

FetchAnswers ==
    {Response(st, "audio/wav", b, NotJson) :
        st \in {200, 404}, b \in {<<>>, <<82, 73, 70, 70>>, <<0, 255>>}}
        \cup {TextAnswer(st, "text/html", "Forbidden") : st \in {403, 500}}
        \cup {JsonAnswer(200, "application/json", Obj1("audio", JStr("UklGRg==")))}
        \cup {Raised(e) : e \in FetchExceptions}

(***************************************************************************)
(* The state.                                                              *)
(***************************************************************************)
VARIABLES
    GHANANLP_API_KEY,   \* the credential read from the environment at start-up
    pc,                 \* "idle", "translate_wait", "tts_wait", "fetch_wait", "done"
    route,              \* the endpoint of the request in progress
    data,               \* request.json of the request in progress
    calls,              \* the outbound calls issued for it, in order
    answers,            \* what each of them came back with (response, audio_response)
    resp                \* the response sent to the client

vars == <<GHANANLP_API_KEY, pc, route, data, calls, answers, resp>>

NoBody == [x \in {} |-> JNull]
NoResponse == [status |-> 0, body |-> NoBody]

Init ==
    /\ GHANANLP_API_KEY \in {"", "test-subscription-key"}
    /\ pc = "idle"
    /\ route = "none"
    /\ data = NotJson
    /\ calls = <<>>
    /\ answers = <<>>
    /\ resp = NoResponse

\* A raised exception is turned into a response by the route's except clauses.
translate_text_outcome(r) ==
    IF r.k = "raise" THEN translate_text_except(r.exc, r.msg) ELSE r
text_to_speech_outcome(r) ==
    IF r.k = "raise" THEN text_to_speech_except(r.exc, r.msg) ELSE r

\* The handler blocks in the call it issued, or returns its response.
Proceed(r, waiting) ==
    IF r.k = "call"
    THEN /\ pc' = waiting
         /\ calls' = Append(calls, r.call)
         /\ resp' = resp
    ELSE /\ pc' = "done"
         /\ calls' = calls
         /\ resp' = [status |-> r.status, body |-> r.body]

\* POST /api/translate arrives.
TranslateRequest ==
    /\ pc = "idle"
    /\ \E d \in TranslateRequests :
         /\ route' = "translate"
         /\ data' = d
         /\ Proceed(translate_text_outcome(translate_text_begin(d, GHANANLP_API_KEY)),
                    "translate_wait")
    /\ UNCHANGED <<GHANANLP_API_KEY, answers>>

\* requests.post of translate_text returns or raises.
TranslateReply ==
    /\ pc = "translate_wait"
    /\ \E a \in TranslateAnswers :
         /\ answers' = Append(answers, a)
         /\ Proceed(translate_text_outcome(
                       IF a.k = "raise" THEN Raise(a.exc, ExcMsg(a.exc))
                       ELSE translate_text_response(data, a)),
                    "translate_wait")
    /\ UNCHANGED <<GHANANLP_API_KEY, route, data>>

\* POST /api/text-to-speech arrives.
SpeechRequest ==
    /\ pc = "idle"
    /\ \E d \in SpeechRequests :
         /\ route' = "tts"
         /\ data' = d
         /\ Proceed(text_to_speech_outcome(text_to_speech_begin(d, GHANANLP_API_KEY)),
                    "tts_wait")
    /\ UNCHANGED <<GHANANLP_API_KEY, answers>>

\* requests.post of text_to_speech returns or raises.
SpeechReply ==
    /\ pc = "tts_wait"
    /\ \E a \in SpeechAnswers :
         /\ answers' = Append(answers, a)
         /\ Proceed(text_to_speech_outcome(
                       IF a.k = "raise" THEN Raise(a.exc, ExcMsg(a.exc))
                       ELSE text_to_speech_response(data, a)),
                    "fetch_wait")
    /\ UNCHANGED <<GHANANLP_API_KEY, route, data>>

\* requests.get of the audio URL returns or raises; a ValueError is swallowed.
FetchReply ==
    /\ pc = "fetch_wait"
    /\ \E a \in FetchAnswers :
         /\ answers' = Append(answers, a)
         /\ Proceed(text_to_speech_outcome(
                       IF a.k = "raise"
                       THEN IF inner_except_catches(a.exc) THEN no_audio_data
                            ELSE Raise(a.exc, ExcMsg(a.exc))
                       ELSE text_to_speech_fetched(data, a)),
                    "fetch_wait")
    /\ UNCHANGED <<GHANANLP_API_KEY, route, data>>

\* The response is sent; the next request finds nothing of this one.
NextRequest ==
    /\ pc = "done"
    /\ pc' = "idle"
    /\ route' = "none"
    /\ data' = NotJson
    /\ calls' = <<>>
    /\ answers' = <<>>
    /\ resp' = NoResponse
    /\ UNCHANGED GHANANLP_API_KEY

Next ==
    \/ TranslateRequest
    \/ TranslateReply
    \/ SpeechRequest
    \/ SpeechReply
    \/ FetchReply
    \/ NextRequest

Spec == Init /\ [][Next]_vars

(***************************************************************************)
(* Properties.                                                             *)
(***************************************************************************)
Done == pc = "done"
Body == resp.body
Has(field) == field \in DOMAIN Body
IsFailure == ~Has("success")
ErrorIs(msg) == Has("error") /\ Body["error"] = JStr(msg)

\* The fields of the request in progress, with the handlers' defaults.
ReqText == DictGet(data, "text", JStr(""))
ReqSource == DictGet(data, "source", JStr("en"))
ReqTarget == DictGet(data, "target", JStr("tw"))
ReqLanguage == DictGet(data, "language", JStr("tw"))

\* The provider answered the first call with a response (not an exception).
Answered == answers # <<>> /\ answers[1].k = "response"
Answer == answers[1]
LastAnswer == answers[Len(answers)]

TtsCapable == {"tw", "ewe", "kikuyu"}

TypeOK ==
    /\ GHANANLP_API_KEY \in {"", "test-subscription-key"}
    /\ pc \in {"idle", "translate_wait", "tts_wait", "fetch_wait", "done"}
    /\ route \in {"none", "translate", "tts"}
    /\ Len(answers) <= Len(calls)
    /\ Done <=> resp # NoResponse

\* C1: every failure of either POST route is answered with a body that carries both
\* `error` and `details`, and every finished request has a response.
C1_FailuresCarryErrorAndDetails ==
    Done =>
        /\ resp # NoResponse
        /\ IsFailure => Has("error") /\ Has("details")

\* C2 as stated: non-empty text and a language code outside {tw, ewe, kikuyu} is
\* answered 400 'TTS not available' with no outbound call, credential or not, and
\* use_browser_tts is true exactly for 'en'.
C2_UnsupportedLanguageWhateverTheKey ==
    (Done /\ route = "tts" /\ IsDict(data) /\ Truthy(ReqText)
        /\ IsStr(ReqLanguage) /\ ReqLanguage.s \notin TtsCapable)
    => /\ resp.status = 400
       /\ ErrorIs("TTS not available")
       /\ calls = <<>>
       /\ Has("use_browser_tts")
       /\ Body["use_browser_tts"] = JBool(ReqLanguage.s = "en")

\* C2 amended: with a credential configured, non-empty text and a language code outside
\* {tw, ewe, kikuyu} is answered 400 'TTS not available', use_browser_tts true exactly
\* for 'en'; without a credential the answer is 401 'API key not configured'; in both
\* cases no outbound call is issued.
C2_UnsupportedLanguageWithKey ==
    (route = "tts" /\ IsDict(data) /\ Truthy(ReqText)
        /\ IsStr(ReqLanguage) /\ ReqLanguage.s \notin TtsCapable)
    => /\ calls = <<>>
       /\ Done
       /\ IF GHANANLP_API_KEY # ""
          THEN /\ resp.status = 400
               /\ ErrorIs("TTS not available")
               /\ Has("use_browser_tts")
               /\ Body["use_browser_tts"] = JBool(ReqLanguage.s = "en")
          ELSE /\ resp.status = 401
               /\ ErrorIs("API key not configured")

C2_Witness ==
    /\ Done /\ route = "tts" /\ GHANANLP_API_KEY # ""
    /\ IsDict(data) /\ ReqText = JStr("Good morning") /\ ReqLanguage = JStr("en")
    /\ resp.status = 400
    /\ Has("use_browser_tts") /\ Body["use_browser_tts"] = JBool(TRUE)

\* C3 as stated: without a credential every translate request, whatever the fields of
\* its body (an empty text included), is answered 401 'API key not configured' and
\* issues no outbound call.
C3_UnconfiguredForEveryBody ==
    (Done /\ route = "translate" /\ GHANANLP_API_KEY = "" /\ IsDict(data))
    => /\ resp.status = 401
       /\ ErrorIs("API key not configured")
       /\ calls = <<>>

\* C3 amended: without a credential no translate request issues an outbound call, and
\* every request whose body is a record with non-empty text is answered 401
\* 'API key not configured'.
C3_UnconfiguredForNonEmptyText ==
    (route = "translate" /\ GHANANLP_API_KEY = "")
    => /\ calls = <<>>
       /\ Done
       /\ (IsDict(data) /\ Truthy(ReqText))
            => resp.status = 401 /\ ErrorIs("API key not configured")

C3_Witness ==
    /\ Done /\ route = "translate" /\ GHANANLP_API_KEY = ""
    /\ IsDict(data) /\ ReqText = JStr("Good morning")
    /\ resp.status = 401

\* C4: a translate request whose text is empty or missing is answered 400
\* 'Missing text' and issues no outbound call, whatever the language codes and
\* whether or not the credential is configured.
C4_EmptyTextIsInvalidInput ==
    (route = "translate" /\ IsDict(data) /\ ~Truthy(ReqText))
    => /\ calls = <<>>
       /\ Done
       /\ resp.status = 400
       /\ ErrorIs("Missing text")

C4_Witness ==
    /\ Done /\ route = "translate" /\ GHANANLP_API_KEY # ""
    /\ IsDict(data) /\ "text" \in DOMAIN data.f /\ ReqText = JStr("")
    /\ ReqSource = JStr("fr")
    /\ resp.status = 400

\* The generic message of translate for a provider status.
GenericMessage(a) == JStr("API returned status " \o ToString(a.status_code))

\* C5 as stated: a provider answer to translate with an error status is passed on
\* with its status, and the error is the `error` field, else the `message` field, else
\* the raw body when non-empty, else the generic message.
C5_LinearPrecedence ==
    (Done /\ route = "translate" /\ Answered /\ Answer.status_code >= 400)
    => /\ resp.status = Answer.status_code
       /\ Has("error")
       /\ Body["error"] =
            IF Answer.json # NotJson /\ IsDict(Answer.json) /\ "error" \in DOMAIN Answer.json.f
            THEN Answer.json.f["error"]
            ELSE IF Answer.json # NotJson /\ IsDict(Answer.json)
                    /\ "message" \in DOMAIN Answer.json.f
            THEN Answer.json.f["message"]
            ELSE IF Len(Answer.content) > 0 THEN JStr(DecodeBytes(Answer.content))
            ELSE GenericMessage(Answer)

\* C5 amended: a non-200 provider answer to translate is passed on with its status;
\* when the body is a JSON record the error is its `error` field, else its `message`
\* field, else the generic message; when the body is not a JSON record the error is
\* the raw body when non-empty, else the generic message.
C5_PrecedenceByBodyKind ==
    (Done /\ route = "translate" /\ Answered /\ Answer.status_code # 200)
    => /\ resp.status = Answer.status_code
       /\ Has("error") /\ Has("details")
       /\ Body["error"] =
            IF Answer.json # NotJson /\ IsDict(Answer.json)
            THEN IF "error" \in DOMAIN Answer.json.f THEN Answer.json.f["error"]
                 ELSE IF "message" \in DOMAIN Answer.json.f THEN Answer.json.f["message"]
                 ELSE GenericMessage(Answer)
            ELSE IF Len(Answer.content) > 0 THEN JStr(DecodeBytes(Answer.content))
                 ELSE GenericMessage(Answer)

C5_Witness ==
    /\ Done /\ route = "translate" /\ Answered
    /\ Answer.status_code = 429
    /\ Answer.json = Obj2("error", JStr("Quota exhausted"), "message", JStr("Try later"))
    /\ resp.status = 429
    /\ ErrorIs("Quota exhausted")

\* C6: a 200 provider answer to translate that is a record or a string yields the
\* value under `out`, else `translation`, else `translatedText`, or the string itself;
\* when that value is empty the answer is 500 'Empty translation received', otherwise
\* a success carrying it; every success carries a non-empty translated_text, and
\* {"out": "Akwaaba"} yields "Akwaaba".
C6_TranslationReconciled ==
    /\ (Done /\ route = "translate" /\ Answered /\ Answer.status_code = 200
          /\ Answer.json # NotJson /\ (IsDict(Answer.json) \/ IsStr(Answer.json)))
       => LET found ==
                IF IsStr(Answer.json) THEN Answer.json
                ELSE IF "out" \in DOMAIN Answer.json.f THEN Answer.json.f["out"]
                ELSE IF "translation" \in DOMAIN Answer.json.f
                     THEN Answer.json.f["translation"]
                ELSE IF "translatedText" \in DOMAIN Answer.json.f
                     THEN Answer.json.f["translatedText"]
                ELSE JStr("")
          IN  IF Truthy(found)
              THEN /\ resp.status = 200
                   /\ Has("success") /\ Body["success"] = JBool(TRUE)
                   /\ Has("translated_text") /\ Body["translated_text"] = found
                   /\ Body["original_text"] = ReqText
              ELSE /\ resp.status = 500
                   /\ ErrorIs("Empty translation received")
    /\ (Done /\ route = "translate" /\ Has("success"))
       => /\ Has("translated_text")
          /\ Truthy(Body["translated_text"])
          /\ Answered /\ Answer.status_code = 200
    /\ (Done /\ route = "translate" /\ Answered /\ Answer.status_code = 200
          /\ Answer.json = Obj1("out", JStr("Akwaaba")))
       => Has("translated_text") /\ Body["translated_text"] = JStr("Akwaaba")

C6_Witness ==
    /\ Done /\ route = "translate" /\ Answered /\ Answer.status_code = 200
    /\ Answer.json = Obj2("out", JStr("Akwaaba"), "translation", JStr("Woezor"))
    /\ ReqSource = JStr("en") /\ ReqTarget = JStr("tw")
    /\ Has("translated_text") /\ Body["translated_text"] = JStr("Akwaaba")

\* C7: no outbound call is retried: a translate request issues at most one call, a
\* synthesize request at most one synthesis POST and then at most one GET of the audio
\* URL; when a call times out or fails to connect the request ends at once, with 504
\* for a timeout and 503 for a connection failure, and no call follows it.
C7_NoRetry ==
    /\ route = "translate" => Len(calls) <= 1
    /\ route = "tts" => Len(calls) <= 2
    /\ \A i \in 1..Len(calls) :
         /\ calls[i].method = (IF i = 1 THEN "POST" ELSE "GET")
         /\ calls[i].url = (IF i > 1 THEN PyStr(DictGet(Answer.json, "audio_url",
                                                        DictGet(Answer.json, "url", JStr(""))))
                            ELSE IF route = "translate" THEN TRANSLATE_API_URL
                            ELSE TTS_API_URL)
    /\ (answers # <<>> /\ LastAnswer.k = "raise"
          /\ LastAnswer.exc \in {"ReadTimeout", "ConnectTimeout", "ConnectionError"})
       => /\ Done
          /\ Len(calls) = Len(answers)
          /\ resp.status = (IF LastAnswer.exc = "ConnectionError" THEN 503 ELSE 504)
          /\ Has("error") /\ Has("details")
    /\ Done => Len(calls) = Len(answers)
    /\ pc \in {"translate_wait", "tts_wait", "fetch_wait"} => Len(calls) = Len(answers) + 1

C7_Witness ==
    /\ Done /\ route = "tts" /\ Len(calls) = 2 /\ Len(answers) = 2
    /\ LastAnswer.k = "raise" /\ LastAnswer.exc = "ReadTimeout"
    /\ resp.status = 504

\* The documented provider code of a client code.
DocumentedCode(c) ==
    CASE c = "en" -> "en"
      [] c = "tw" -> "tw"
      [] c = "twi_akuapem" -> "ak"
      [] c = "ewe" -> "ee"
      [] c = "ga" -> "gaa"
      [] c = "dagbani" -> "dag"
      [] c = "fante" -> "fat"
      [] c = "kikuyu" -> "ki"
      [] OTHER -> c

\* C8: the mapper of translate has the eight documented entries, pairwise distinct,
\* and the provider request carries '<mapped source>-<mapped target>', a code outside
\* the table passing through unchanged.
C8_LanguagePairToken ==
    /\ DOMAIN lang_map
         = {"en", "tw", "twi_akuapem", "ewe", "ga", "dagbani", "fante", "kikuyu"}
    /\ Cardinality({lang_map[c] : c \in DOMAIN lang_map}) = 8
    /\ (route = "translate" /\ calls # <<>> /\ IsStr(ReqSource) /\ IsStr(ReqTarget))
       => /\ DOMAIN calls[1].json.f = {"in", "lang"}
          /\ calls[1].json.f["in"] = ReqText
          /\ calls[1].json.f["lang"]
               = JStr(DocumentedCode(ReqSource.s) \o "-" \o DocumentedCode(ReqTarget.s))

C8_Witness ==
    /\ route = "translate" /\ calls # <<>>
    /\ ReqSource = JStr("twi_akuapem") /\ ReqTarget = JStr("ga")
    /\ calls[1].json.f["lang"] = JStr("ak-gaa")

\* The three shapes of a 200 synthesis answer, as the claim states them.
LooksBinary(a) ==
    \/ Contains("audio", PyLower(a.content_type))
    \/ Contains("octet-stream", PyLower(a.content_type))
    \/ Len(a.content) > 1000
InlineAudio(a) ==
    IF a.json # NotJson /\ IsDict(a.json)
    THEN DictGet(a.json, "audio",
                 DictGet(a.json, "audio_content", DictGet(a.json, "audio_base64", JStr(""))))
    ELSE JStr("")
AudioUrl(a) ==
    IF a.json # NotJson /\ IsDict(a.json)
    THEN DictGet(a.json, "audio_url", DictGet(a.json, "url", JStr("")))
    ELSE JStr("")
SuccessWith(audio) ==
    /\ resp.status = 200
    /\ Has("success") /\ Has("audio_data") /\ Body["audio_data"] = audio
    /\ Body["speaker_id"] = JStr(speaker_map[ReqLanguage.s][1])
NoAudioPayload == resp.status = 500 /\ ErrorIs("No audio data in response")

\* C9: a 200 synthesis answer is reconciled by the first matching shape (binary audio
\* encoded in base64, inline audio passed through, an audio URL fetched and encoded),
\* each success carrying the first speaker of the language, and an answer that matches
\* no shape (a body that is no JSON, JSON that is no record, a fetch that does not
\* return 200) is answered 500 'No audio data in response'.
C9_ThreeShapesOrNoAudio ==
    (Done /\ route = "tts" /\ Answered /\ Answer.status_code = 200
        /\ \A i \in 1..Len(answers) : answers[i].k = "response")
    => IF LooksBinary(Answer) THEN SuccessWith(JStr(b64encode(Answer.content)))
       ELSE IF Truthy(InlineAudio(Answer)) THEN SuccessWith(InlineAudio(Answer))
       ELSE IF Truthy(AudioUrl(Answer)) /\ Len(answers) = 2 /\ answers[2].status_code = 200
            THEN SuccessWith(JStr(b64encode(answers[2].content)))
       ELSE NoAudioPayload

\* C10: on both POST routes the status and the body agree: a body with `error` has a
\* status of 400 or more, and a status below 400 goes with `success: true`.
C10_StatusAgreesWithBody ==
    Done =>
        /\ Has("error") => resp.status >= 400
        /\ resp.status < 400 => Has("success") /\ Body["success"] = JBool(TRUE)

====
